---- MODULE Spec2Model ----
(***************************************************************************)
(* Model of the tabbed text editor in src/1.0.0.py: the notebook of        *)
(* EditorTab documents, their Tk text widgets (content, Tk modified flag,   *)
(* tags), the files on disk, the status bar and the Tk event queue that     *)
(* delivers the <<Modified>> and <<NotebookTabChanged>> virtual events.     *)
(*                                                                         *)
(* Every handler of the program is one action.  A handler is written as a  *)
(* chain of operators over a record of the program state (s), one operator *)
(* per method of the source, so that a method called from several handlers *)
(* is modelled once.  An exception raised inside a method sets s.raised and *)
(* the rest of the handler is skipped, as in Python.                        *)
(***************************************************************************)
EXTENDS Integers, Sequences, FiniteSets, TLC

\* ------------------------------------------------------------------ bounds
MaxTabs == 2            \* most tabs the notebook holds at once
MaxTime == 45           \* the clock stops advancing here
TickStep == 15          \* seconds per clock step
Texts == { <<>>, <<"x">> }                       \* buffer contents typed
QuotedIf == <<"\"", "i", "f", "\"">>             \* the python text "if"
HighlightTexts == { <<>>, <<"x">>, QuotedIf }    \* contents to highlight
MaxRows == 2            \* most text lines the window shows at once
MaxTop == 2             \* the furthest the view is scrolled: its top line
LineTexts == { <<>>, <<"a", "\n">>, <<"a", "\n", "b", "\n", "c">> }
RoundTripTexts == { <<>>, <<"x", "\n">>, <<"\r">> }   \* contents to save
PathPy == <<"a", ".", "P", "y">>                 \* "a.Py"
PathTxt == <<"n", ".", "t", "x", "t">>           \* "n.txt"
Paths == { PathPy, PathTxt }                     \* paths the dialogs return
TextPaths == { PathTxt }
PathHtml == <<"i", ".", "H", "T", "M", "L">>     \* "i.HTML"
PathJs == <<"m", ".", "j", "s">>                 \* "m.js"
PathBare == <<"m", "k">>                         \* "mk"
PathHidden == <<".", "p", "y">>                  \* ".py"
PathDir == <<"d", ".", "p", "y", "/", "f">>      \* "d.py/f"
PathBak == <<"a", ".", "p", "y", ".", "b">>      \* "a.py.b"
DetectPaths == { PathPy, PathTxt, PathHtml, PathJs, PathBare, PathHidden,
                 PathDir, PathBak }              \* paths given to detection

\* --------------------------------------------------------------- constants
NoTab == 0              \* current_tab() is None / notebook.select() is ''
NoPath == <<>>          \* file_path is None (or the dialog was cancelled)
TabIds == 1 .. MaxTabs
AutoSaveInterval == 30
Encoding == "utf-8"
DefaultLanguage == "python"

\* SYNTAX_RULES: the languages that have rules, whether the rule set has a
\* 'keywords' entry, and the tags of its 'patterns' in declared order.
SYNTAX_RULES ==
    [ python |-> [ keywords |-> TRUE,
                   patterns |-> << "comment", "string", "string", "string",
                                   "string", "number", "constant" >> ],
      html   |-> [ keywords |-> FALSE,
                   patterns |-> << "comment", "tag", "tag", "string",
                                   "string", "entity" >> ] ]

RuleLanguages == DOMAIN SYNTAX_RULES

\* ------------------------------------------------------------ pure helpers
Max(S) == CHOOSE x \in S : \A y \in S : y <= x

\* str.rfind: the last index (1-based) of character c in p, 0 when absent.
LastIndexOf(p, c) == Max({0} \cup { i \in 1 .. Len(p) : p[i] = c })

\* str.lower on the characters the paths use.
LowerChar(c) ==
    CASE c = "P" -> "p"
      [] c = "Y" -> "y"
      [] c = "H" -> "h"
      [] c = "T" -> "t"
      [] c = "M" -> "m"
      [] c = "L" -> "l"
      [] OTHER -> c

Lower(p) == [ i \in 1 .. Len(p) |-> LowerChar(p[i]) ]

\* os.path.splitext(path)[1]: the text from the last dot on, when that dot
\* comes after the last separator and is not one of the leading dots of the
\* file name; otherwise ''.
SplitExt(p) ==
    LET sep == LastIndexOf(p, "/")
        dot == LastIndexOf(p, ".")
    IN  IF dot > sep /\ \E i \in (sep + 1) .. (dot - 1) : p[i] # "."
        THEN SubSeq(p, dot, Len(p))
        ELSE <<>>

\* A lang_map without the entry for '.js'.
LangMap_without_js(ext) ==
    CASE ext = <<".", "p", "y">> -> "python"
      [] ext = <<".", "h", "t", "m", "l">> -> "html"
      [] OTHER -> "text"

\* lang_map.get(ext, 'text') of _detect_language.
LangMap(ext) ==
    CASE ext = <<".", "p", "y">> -> "python"
      [] ext = <<".", "h", "t", "m", "l">> -> "html"
      [] ext = <<".", "j", "s">> -> "javascript"
      [] OTHER -> "text"

\* The number of line feeds in a text.
Newlines(c) == Cardinality({ i \in 1 .. Len(c) : c[i] = "\n" })

\* str.split('\n'): the segments between the line feeds.
RECURSIVE Split(_)
Split(c) ==
    IF Newlines(c) = 0 THEN << c >>
    ELSE LET k == CHOOSE i \in 1 .. Len(c) :
                     /\ c[i] = "\n"
                     /\ \A j \in 1 .. (i - 1) : c[j] # "\n"
         IN  << SubSeq(c, 1, k - 1) >> \o Split(SubSeq(c, k + 1, Len(c)))

\* What the window shows of a text widget: the line at its top and the
\* number of lines that fit.
Views == [ top : 1 .. MaxTop, rows : 1 .. MaxRows ]

\* The views a text of n lines can be scrolled to: the widget does not
\* scroll past the last line.
ViewsOf(n) == { v \in Views : v.top = 1 \/ v.top + v.rows - 1 <= n }

\* Text.bbox('line.0')[1]: the y position of the line in the view, in
\* lines; bbox returns None for a line that is not on screen and the
\* subscript then raises TypeError.
OnScreen(line, view) == view.top <= line /\ line < view.top + view.rows
bbox_y(line, view) == line - view.top

\* LineNumberCanvas._update: delete the labels, then create one per entry
\* of lines, in order, until bbox fails.  The labels on the canvas after
\* the call and whether it raised.
LineNumberCanvas_update(content, view) ==
    LET lines == Split(content)
        off == { i \in 1 .. Len(lines) : ~OnScreen(i, view) }
        n == IF off = {} THEN Len(lines)
             ELSE (CHOOSE i \in off : \A j \in off : i <= j) - 1
    IN  [ labels |-> [ i \in 1 .. n |-> [ text |-> i,
                                          y |-> bbox_y(i, view) ] ],
          raised |-> off # {} ]

\* open(path, 'w', encoding=...).write(content): the characters stored.
WriteText(content) == content

\* open(path, 'r', encoding='utf-8').read(): universal newlines turn a
\* carriage return, alone or before a line feed, into one line feed.
RECURSIVE ReadText(_)
ReadText(data) ==
    IF data = <<>> THEN <<>>
    ELSE IF Head(data) = "\r"
         THEN IF Len(data) > 1 /\ data[2] = "\n"
              THEN <<"\n">> \o ReadText(SubSeq(data, 3, Len(data)))
              ELSE <<"\n">> \o ReadText(Tail(data))
         ELSE <<Head(data)>> \o ReadText(Tail(data))

\* ------------------------------------------------------------------- state
VARIABLES
    tabs,               \* notebook.tabs(): the open tabs in tab order
    current,            \* the selected tab, NoTab when there is none
    file_path,          \* EditorTab.file_path
    text,               \* the content of EditorTab.text
    text_modified,      \* EditorTab.text_modified
    edit_modified,      \* the modified flag of the Tk text widget
    last_save,          \* EditorTab.last_save
    language,           \* EditorTab.highlighter.language
    spans,              \* the tag ranges of EditorTab.text
    current_language,   \* TextEditor._current_language
    auto_save,          \* TextEditor.auto_save
    theme,              \* TextEditor.theme
    status_bar,         \* the text of TextEditor.status_bar
    events,             \* the queue of pending Tk virtual events
    disk,               \* the files: whether each exists, its characters,
                        \* and (history) the characters of the last write
                        \* that completed
    now,                \* time.time()
    hist,               \* history of each tab: see NewHist
    last                \* history: what the last handler did

vars == << tabs, current, file_path, text, text_modified, edit_modified,
           last_save, language, spans, current_language, auto_save, theme,
           status_bar, events, disk, now, hist, last >>

\* The status bar before the first update_status and with no tab.
StatusReady == [ shown |-> "ready", file |-> NoPath, encoding |-> "",
                 language |-> "", modified |-> FALSE ]

ModifiedEvent(d) == [ type |-> "Modified", tab |-> d ]
TabChangedEvent == [ type |-> "NotebookTabChanged", tab |-> NoTab ]

\* A tab is named by its position in the notebook: tabs is << 1, ..., n >>.
\* The program state a handler starts from.
Cur ==
    [ tabs |-> tabs, current |-> current, file_path |-> file_path,
      text |-> text, text_modified |-> text_modified,
      edit_modified |-> edit_modified, last_save |-> last_save,
      language |-> language, spans |-> spans,
      current_language |-> current_language, status_bar |-> status_bar,
      events |-> events, disk |-> disk, hist |-> hist,
      error |-> "", raised |-> FALSE, save_called |-> {}, saved |-> {},
      save_failed |-> {}, prompted |-> {}, closed |-> {} ]

InTabs(s, d) == d \in 1 .. Len(s.tabs)

\* History of a tab: synced is the content the tab was created with or last
\* wrote with a successful save; edited tells whether the user has edited
\* it since then; fresh whether the user has neither edited nor saved it.
NewHist(content) == [ fresh |-> TRUE, edited |-> FALSE, synced |-> content ]

\* ------------------------------------------------- methods of the program
\* Each takes the state record s and returns the state after the call.

\* An exception propagates: the remaining statements of the handler and of
\* its callers are skipped until something catches it.
Raise(s) == [ s EXCEPT !.raised = TRUE ]

\* messagebox.showerror(title, ...)
ShowError(s, title) == [ s EXCEPT !.error = title ]

\* TextEditor.update_status: the fields shown for the current tab.
update_status(s) ==
    IF s.current # NoTab
    THEN [ s EXCEPT !.status_bar =
             [ shown |-> "fields",
               file |-> s.file_path[s.current],
               encoding |-> Encoding,
               language |-> s.current_language,
               modified |-> s.text_modified[s.current] ] ]
    ELSE [ s EXCEPT !.status_bar = StatusReady ]

\* SyntaxHighlighter._clear_tags
clear_tags(s, d) == [ s EXCEPT !.spans[d] = {} ]

\* SyntaxHighlighter._highlight_pattern: Text.search() of tkinter has no
\* parameter named flags, so the call raises TypeError before any tag is
\* added.
highlight_pattern(s, d, tag) == Raise(s)

\* A highlight that keeps the tags it finds and adds one more range.
highlight_accumulating(s, d) ==
    LET n == Cardinality(s.spans[d])
    IN  [ s EXCEPT !.spans[d] = @ \cup { [ start |-> n, end |-> n + 1,
                                           tag |-> "keyword" ] } ]

\* SyntaxHighlighter.highlight: clear the tags, then apply the keyword
\* pattern and the declared patterns of the language, when it has rules.
highlight(s, d) ==
    LET s1 == clear_tags(s, d)
    IN  IF s1.language[d] \in RuleLanguages
        THEN LET rules == SYNTAX_RULES[s1.language[d]]
             IN  IF rules.keywords
                 THEN highlight_pattern(s1, d, "keyword")
                 ELSE IF Len(rules.patterns) > 0
                      THEN highlight_pattern(s1, d, rules.patterns[1])
                      ELSE s1
        ELSE s1

\* SyntaxHighlighter.set_language
highlighter_set_language(s, d, lang) ==
    highlight([ s EXCEPT !.language[d] = lang ], d)

\* set_language that reaches the highlighter of every tab.
set_language_all(s, lang) ==
    LET s1 == [ s EXCEPT !.current_language = lang,
                         !.language = [ d \in TabIds |->
                                          IF InTabs(s, d) THEN lang
                                          ELSE s.language[d] ] ]
    IN  IF s1.current # NoTab THEN highlight(s1, s1.current) ELSE s1

\* TextEditor.set_language: the session language and the language of the
\* tab that is current at the time of the call.
set_language(s, lang) ==
    LET s1 == [ s EXCEPT !.current_language = lang ]
    IN  IF s1.current # NoTab
        THEN highlighter_set_language(s1, s1.current, lang)
        ELSE s1

\* TextEditor._detect_language
detect_language(s, path) == set_language(s, LangMap(Lower(SplitExt(path))))

\* The Tk text widget on a change of its content: the modified flag goes
\* up, and a <<Modified>> event is queued when the flag changes.
text_changed(s, d, content) ==
    LET s1 == [ s EXCEPT !.text[d] = content ]
    IN  IF s1.edit_modified[d]
        THEN s1
        ELSE [ s1 EXCEPT !.edit_modified[d] = TRUE,
                         !.events = Append(@, ModifiedEvent(d)) ]

\* The flag left as it is.
edit_modified_kept(s, d) == s

\* text.edit_modified(False): the flag goes down, and a <<Modified>> event
\* is queued when the flag changes.
edit_modified_reset(s, d) ==
    IF s.edit_modified[d]
    THEN [ s EXCEPT !.edit_modified[d] = FALSE,
                    !.events = Append(@, ModifiedEvent(d)) ]
    ELSE s

\* ttk.Notebook.select(tab): a <<NotebookTabChanged>> event is queued when
\* the selection changes.
notebook_select(s, d) ==
    IF s.current = d
    THEN s
    ELSE [ s EXCEPT !.current = d, !.events = Append(@, TabChangedEvent) ]

\* ttk.Notebook.add(tab): the tab goes last; the first tab of an empty
\* notebook is selected.
notebook_add(s, d) ==
    LET s1 == [ s EXCEPT !.tabs = Append(@, d) ]
    IN  IF s1.current = NoTab THEN notebook_select(s1, d) ELSE s1

\* A per-tab field after the tab at position i has gone: the tabs behind
\* it move up one position, and the freed last position gets the value
\* blank.
Shift(f, i, n, blank) ==
    [ d \in TabIds |-> IF d < i THEN f[d]
                       ELSE IF d < n THEN f[d + 1]
                       ELSE IF d = n THEN blank
                       ELSE f[d] ]

\* ttk.Notebook.forget(tab) for the tab at position i: when the selected
\* tab goes, the next tab is selected, or the previous one when there is no
\* next, and <<NotebookTabChanged>> is queued.  The widget is dropped with
\* the tab.
notebook_forget(s, i) ==
    LET n == Len(s.tabs)
        s1 == [ s EXCEPT !.tabs = SubSeq(@, 1, n - 1),
                         !.file_path = Shift(@, i, n, NoPath),
                         !.text = Shift(@, i, n, <<>>),
                         !.text_modified = Shift(@, i, n, FALSE),
                         !.edit_modified = Shift(@, i, n, FALSE),
                         !.last_save = Shift(@, i, n, 0),
                         !.language = Shift(@, i, n, DefaultLanguage),
                         !.spans = Shift(@, i, n, {}),
                         !.hist = Shift(@, i, n, NewHist(<<>>)) ]
    IN  IF s.current = i
        THEN [ s1 EXCEPT !.current = IF i < n THEN i ELSE n - 1,
                         !.events = Append(@, TabChangedEvent) ]
        ELSE IF s.current > i
             THEN [ s1 EXCEPT !.current = @ - 1 ]
             ELSE s1

\* EditorTab.__init__ with SyntaxHighlighter.__init__: a fresh tab widget.
EditorTab_init(s, d, t) ==
    [ s EXCEPT !.file_path[d] = NoPath,
               !.text[d] = <<>>,
               !.text_modified[d] = FALSE,
               !.edit_modified[d] = FALSE,
               !.last_save[d] = t,
               !.language[d] = DefaultLanguage,
               !.spans[d] = {},
               !.hist[d] = NewHist(<<>>) ]

\* A new tab goes last in the notebook: the position it will have.
NewTab(s) == Len(s.tabs) + 1

\* TextEditor.add_tab(title, content, path) at time t.
add_tab(s, content, path, t) ==
    LET d == NewTab(s)
        s1 == notebook_add(EditorTab_init(s, d, t), d)
        s2 == IF content # <<>>
              THEN text_changed([ s1 EXCEPT !.hist[d] = NewHist(content) ],
                                d, content)
              ELSE s1
        s3 == IF path # NoPath
              THEN detect_language([ s2 EXCEPT !.file_path[d] = path ], path)
              ELSE s2
    IN  IF s3.raised THEN s3 ELSE notebook_select(s3, d)

\* The write of save fails: the exception is caught and shown.
save_error(s, d) ==
    ShowError([ s EXCEPT !.save_failed = @ \cup {d} ], "save_error")

\* The write of save succeeds.
save_done(s, d, p, t) ==
    update_status(
      [ s EXCEPT !.disk[p] = [ exists |-> TRUE, data |-> WriteText(s.text[d]),
                               persisted |-> WriteText(s.text[d]) ],
                 !.text_modified[d] = FALSE,
                 !.last_save[d] = t,
                 !.saved = @ \cup {d},
                 !.hist[d] = [ fresh |-> FALSE, edited |-> FALSE,
                               synced |-> s.text[d] ] ])

\* save with the modified flag cleared before the write is tried.
save_flag_first(s, d, io, t) ==
    LET s0 == [ s EXCEPT !.save_called = @ \cup {d} ]
        p == s.file_path[d]
    IN  IF p = NoPath THEN s0
        ELSE CASE io = "ok" -> save_done(s0, d, p, t)
               [] OTHER -> save_error([ s0 EXCEPT !.text_modified[d] = FALSE ], d)

\* save with the timestamp taken before the write is tried.
save_stamp_first(s, d, io, t) ==
    LET s0 == [ s EXCEPT !.save_called = @ \cup {d} ]
        p == s.file_path[d]
    IN  IF p = NoPath THEN s0
        ELSE CASE io = "ok" -> save_done(s0, d, p, t)
               [] OTHER -> save_error([ s0 EXCEPT !.last_save[d] = t ], d)

\* EditorTab.save at time t; io is what the file system does with the
\* write: "ok", "open_fails" (the file is left as it was) or "write_fails"
\* (the file was truncated by open and the write did not complete).
save(s, d, io, t) ==
    LET s0 == [ s EXCEPT !.save_called = @ \cup {d} ]
        p == s.file_path[d]
    IN  IF p = NoPath THEN s0
        ELSE CASE io = "ok" -> save_done(s0, d, p, t)
               [] io = "open_fails" -> save_error(s0, d)
               [] OTHER ->
                    save_error([ s0 EXCEPT !.disk[p].exists = TRUE,
                                           !.disk[p].data = <<>> ], d)

\* TextEditor.open_file(path) at time t.  Reading a missing file raises;
\* every exception of the try block is caught and shown.
open_file(s, path, t) ==
    IF path = NoPath THEN s
    ELSE IF ~s.disk[path].exists THEN ShowError(s, "open_error")
    ELSE LET content == ReadText(s.disk[path].data)
             s1 == add_tab(s, content, path, t)
             s2 == IF s1.raised THEN s1 ELSE detect_language(s1, path)
         IN  IF s2.raised
             THEN ShowError([ s2 EXCEPT !.raised = FALSE ], "open_error")
             ELSE s2

\* TextEditor.save_as with the path the dialog returned.
save_as(s, path, io, t) ==
    IF s.current # NoTab /\ path # NoPath
    THEN save([ s EXCEPT !.file_path[s.current] = path ], s.current, io, t)
    ELSE s

\* TextEditor.save_file
save_file(s, path, io, t) ==
    IF s.current # NoTab
    THEN IF s.file_path[s.current] # NoPath
         THEN save(s, s.current, io, t)
         ELSE save_as(s, path, io, t)
    ELSE s

\* _confirm_save that lets the close go on whatever the answer.
confirm_save_always(s, d, resp, io, t) ==
    LET s0 == [ s EXCEPT !.prompted = @ \cup {d} ]
    IN  IF resp = "yes" THEN [ st |-> save(s0, d, io, t), go |-> TRUE ]
        ELSE [ st |-> s0, go |-> TRUE ]

\* TextEditor._confirm_save with the answer to askyesnocancel: the state
\* after it and whether the close goes on.
confirm_save(s, d, resp, io, t) ==
    LET s0 == [ s EXCEPT !.prompted = @ \cup {d} ]
    IN  IF resp = "cancel" THEN [ st |-> s0, go |-> FALSE ]
        ELSE IF resp = "yes" THEN [ st |-> save(s0, d, io, t), go |-> TRUE ]
        ELSE [ st |-> s0, go |-> TRUE ]

\* The tab that stood at position j when the handler started, now at
\* position i, is forgotten.
forget(s, i, j) == notebook_forget([ s EXCEPT !.closed = @ \cup {j} ], i)

\* TextEditor.close_tab
close_tab(s, resp, io, t) ==
    IF s.current # NoTab
    THEN IF s.text_modified[s.current]
         THEN LET c == confirm_save(s, s.current, resp, io, t)
              IN  IF ~c.go THEN c.st ELSE forget(c.st, s.current, s.current)
         ELSE forget(s, s.current, s.current)
    ELSE s

\* The test of close_other_tabs: tab is a widget path name (a string) and
\* current.winfo_id() a window id (an integer), so they never compare equal.
IsOtherTab(tab, cur) == TRUE

\* TextEditor.close_other_tabs: forget every tab of notebook.tabs() that
\* passes the test, in tab order.  j runs over the tabs as they stood at the
\* call, n is their number, gone counts the tabs already forgotten (each
\* moved the later ones up by one) and cur is the tab that was current.
RECURSIVE forget_others(_, _, _, _, _)
forget_others(s, j, n, gone, cur) ==
    IF j > n THEN s
    ELSE IF IsOtherTab(j, cur)
         THEN forget_others(forget(s, j - gone, j), j + 1, n, gone + 1, cur)
         ELSE forget_others(s, j + 1, n, gone, cur)

\* Without a current tab current.winfo_id() raises AttributeError.
close_other_tabs(s) ==
    IF s.current = NoTab THEN Raise(s)
    ELSE forget_others(s, 1, Len(s.tabs), 0, s.current)

\* EditorTab._auto_save_check at time t.
auto_save_check(s, d, enabled, io, t) ==
    IF enabled /\ t - s.last_save[d] > AutoSaveInterval
    THEN save(s, d, io, t)
    ELSE s

\* EditorTab._on_modify
on_modify(s, d) ==
    IF s.edit_modified[d]
    THEN LET s1 == update_status([ s EXCEPT !.text_modified[d] = TRUE ])
         IN  highlight(edit_modified_reset(s1, d), d)
    ELSE s

\* ------------------------------------------------------------------- Init
\* TextEditor.__init__: theme dark, autosave off, language python, and one
\* empty tab from _setup_ui, selected by the notebook.  At the start a.Py
\* exists and holds "x", and n.txt does not exist.
InitFiles ==
    { [ p \in Paths |-> IF p = PathPy
                        THEN [ exists |-> TRUE, data |-> <<"x">>,
                               persisted |-> <<"x">> ]
                        ELSE [ exists |-> FALSE, data |-> <<>>,
                               persisted |-> <<>> ] ] }

Blank ==
    [ tabs |-> <<>>, current |-> NoTab,
      file_path |-> [ d \in TabIds |-> NoPath ],
      text |-> [ d \in TabIds |-> <<>> ],
      text_modified |-> [ d \in TabIds |-> FALSE ],
      edit_modified |-> [ d \in TabIds |-> FALSE ],
      last_save |-> [ d \in TabIds |-> 0 ],
      language |-> [ d \in TabIds |-> DefaultLanguage ],
      spans |-> [ d \in TabIds |-> {} ],
      current_language |-> "python", status_bar |-> StatusReady,
      events |-> <<>>, disk |-> [ p \in Paths |-> [ exists |-> FALSE,
                                                     data |-> <<>>,
                                                     persisted |-> <<>> ] ],
      hist |-> [ d \in TabIds |-> NewHist(<<>>) ],
      error |-> "", raised |-> FALSE, save_called |-> {}, saved |-> {},
      save_failed |-> {}, prompted |-> {}, closed |-> {} ]

\* What the history variable records of a handler that ran from state s0
\* to state s: its name, its argument, the error dialog shown, whether an
\* exception reached the event loop, the tabs save() was called on, those
\* it wrote and those whose write failed, the tabs the user was asked about
\* and the tabs that were closed (tabs by their position when the handler
\* started).
Did(op, arg, s0, s) ==
    [ op |-> op, arg |-> arg, error |-> s.error, raised |-> s.raised,
      save_called |-> s.save_called, saved |-> s.saved,
      save_failed |-> s.save_failed, prompted |-> s.prompted,
      closed |-> s.closed ]

\* The handler ends: its state becomes the program state.
Commit(op, arg, s) ==
    /\ tabs' = s.tabs
    /\ current' = s.current
    /\ file_path' = s.file_path
    /\ text' = s.text
    /\ text_modified' = s.text_modified
    /\ edit_modified' = s.edit_modified
    /\ last_save' = s.last_save
    /\ language' = s.language
    /\ spans' = s.spans
    /\ current_language' = s.current_language
    /\ status_bar' = s.status_bar
    /\ events' = s.events
    /\ disk' = s.disk
    /\ hist' = s.hist
    /\ last' = Did(op, arg, Cur, s)

Init ==
    /\ \E files \in InitFiles :
          LET s == add_tab([ Blank EXCEPT !.disk = files ], <<>>, NoPath, 0)
          IN  /\ tabs = s.tabs
              /\ current = s.current
              /\ file_path = s.file_path
              /\ text = s.text
              /\ text_modified = s.text_modified
              /\ edit_modified = s.edit_modified
              /\ last_save = s.last_save
              /\ language = s.language
              /\ spans = s.spans
              /\ current_language = s.current_language
              /\ status_bar = s.status_bar
              /\ events = s.events
              /\ disk = s.disk
              /\ hist = s.hist
              /\ last = Did("init", "", Blank, s)
    /\ auto_save = FALSE
    /\ theme = "dark"
    /\ now = 0

\* ---------------------------------------------------------------- actions
\* Tk handles the virtual events it has queued before it takes the next
\* input from the user, so a user command starts with an empty queue.
Idle == events = <<>>

IoOutcomes == { "ok", "open_fails", "write_fails" }
Answers == { "yes", "no", "cancel" }

\* File > New, Ctrl+N
NewDocument ==
    /\ Idle
    /\ Len(tabs) < MaxTabs
    /\ Commit("add_tab", "", add_tab(Cur, <<>>, NoPath, now))
    /\ UNCHANGED << auto_save, theme, now >>

\* File > Open, Ctrl+O, with the path chosen in the dialog among P, or the
\* dialog cancelled
OpenFile(P) ==
    /\ Idle
    /\ Len(tabs) < MaxTabs
    /\ \E path \in P \cup {NoPath} :
          Commit("open_file", "", open_file(Cur, path, now))
    /\ UNCHANGED << auto_save, theme, now >>

\* The user replaces the content of the current tab's text widget by one
\* of the texts T.
SetContent(T) ==
    /\ Idle
    /\ current # NoTab
    /\ \E x \in T :
          Commit("set_content", "",
                 text_changed([ Cur EXCEPT !.hist[current].fresh = FALSE,
                                           !.hist[current].edited = TRUE ],
                              current, x))
    /\ UNCHANGED << auto_save, theme, now >>

\* File > Save, Ctrl+S; path is what the save-as dialog returns when the
\* tab has no file yet: a path among P, or the dialog cancelled.
SaveFile(P) ==
    /\ Idle
    /\ \E path \in P \cup {NoPath}, io \in IoOutcomes :
          Commit("save_file", "", save_file(Cur, path, io, now))
    /\ UNCHANGED << auto_save, theme, now >>

\* Tab menu > close tab, with the answer to the confirmation
CloseTab ==
    /\ Idle
    /\ \E resp \in Answers, io \in IoOutcomes :
          LET s == close_tab(Cur, resp, io, now)
          IN  Commit("close_tab", IF s.prompted = {} THEN "" ELSE resp, s)
    /\ UNCHANGED << auto_save, theme, now >>

\* Tab menu > close other tabs
CloseOtherTabs ==
    /\ Idle
    /\ Commit("close_other_tabs", "", close_other_tabs(Cur))
    /\ UNCHANGED << auto_save, theme, now >>

\* Language menu: one entry per key of SYNTAX_RULES
SetLanguage ==
    /\ Idle
    /\ \E lang \in RuleLanguages :
          Commit("set_language", lang, set_language(Cur, lang))
    /\ UNCHANGED << auto_save, theme, now >>

\* The user clicks another tab of the notebook.
SelectTab ==
    /\ Idle
    /\ \E d \in TabIds :
          /\ InTabs(Cur, d)
          /\ d # current
          /\ Commit("select_tab", "", notebook_select(Cur, d))
    /\ UNCHANGED << auto_save, theme, now >>

\* <<Modified>> reaches EditorTab._on_modify.
OnModify ==
    /\ events # <<>>
    /\ Head(events).type = "Modified"
    /\ Commit("on_modify", "",
              on_modify([ Cur EXCEPT !.events = Tail(@) ], Head(events).tab))
    /\ UNCHANGED << auto_save, theme, now >>

\* <<NotebookTabChanged>> reaches the lambda that calls update_status.
OnTabChanged ==
    /\ events # <<>>
    /\ Head(events).type = "NotebookTabChanged"
    /\ Commit("tab_changed", "",
              update_status([ Cur EXCEPT !.events = Tail(@) ]))
    /\ UNCHANGED << auto_save, theme, now >>

\* <KeyRelease> in the text widget of the current tab.
AutoSaveCheck ==
    /\ Idle
    /\ current # NoTab
    /\ \E io \in IoOutcomes :
          Commit("auto_save_check", "",
                 auto_save_check(Cur, current, auto_save, io, now))
    /\ UNCHANGED << auto_save, theme, now >>

\* File > autosave
ToggleAutoSave ==
    /\ Idle
    /\ auto_save' = ~auto_save
    /\ last' = Did("toggle_auto_save", "", Cur, Cur)
    /\ UNCHANGED << tabs, current, file_path, text, text_modified,
                    edit_modified, last_save, language, spans,
                    current_language, theme, status_bar, events, disk, now,
                    hist >>

\* View > toggle theme; _apply_theme changes colours only.
ToggleTheme ==
    /\ Idle
    /\ theme' = IF theme = "light" THEN "dark" ELSE "light"
    /\ last' = Did("toggle_theme", "", Cur, Cur)
    /\ UNCHANGED << tabs, current, file_path, text, text_modified,
                    edit_modified, last_save, language, spans,
                    current_language, auto_save, status_bar, events, disk,
                    now, hist >>

\* Time passes.
Tick ==
    /\ now + TickStep <= MaxTime
    /\ now' = now + TickStep
    /\ last' = Did("tick", "", Cur, Cur)
    /\ UNCHANGED << tabs, current, file_path, text, text_modified,
                    edit_modified, last_save, language, spans,
                    current_language, auto_save, theme, status_bar, events,
                    disk, hist >>

\* The whole program.
Next ==
    \/ NewDocument
    \/ OpenFile(Paths)
    \/ SetContent(Texts)
    \/ SaveFile(Paths)
    \/ CloseTab
    \/ CloseOtherTabs
    \/ SetLanguage
    \/ SelectTab
    \/ OnModify
    \/ OnTabChanged
    \/ AutoSaveCheck
    \/ ToggleAutoSave
    \/ ToggleTheme
    \/ Tick

Spec == Init /\ [][Next]_vars

\* Documents and their files: open, edit, save, close, switch, with the
\* dialogs returning text files only.
NextFiles ==
    \/ NewDocument
    \/ OpenFile(TextPaths)
    \/ SetContent(Texts)
    \/ SaveFile(TextPaths)
    \/ CloseTab
    \/ SelectTab
    \/ OnModify
    \/ OnTabChanged

SpecFiles == Init /\ [][NextFiles]_vars

\* Tabs and their languages: new, edit, language, switch, close.
NextTabs ==
    \/ NewDocument
    \/ SetContent(Texts)
    \/ SetLanguage
    \/ SelectTab
    \/ CloseTab
    \/ CloseOtherTabs
    \/ OnModify
    \/ OnTabChanged

SpecTabs == Init /\ [][NextTabs]_vars

\* One document with the clock and autosave.
NextAuto ==
    \/ SetContent(Texts)
    \/ SaveFile(Paths)
    \/ OnModify
    \/ OnTabChanged
    \/ AutoSaveCheck
    \/ ToggleAutoSave
    \/ Tick

SpecAuto == Init /\ [][NextAuto]_vars

\* <Configure>, <KeyRelease> or <MouseWheel> reaches
\* LineNumberCanvas._update of the current tab, with the window showing
\* some part of the text.
UpdateLineNumbers ==
    /\ Idle
    /\ current # NoTab
    /\ \E view \in ViewsOf(Len(Split(text[current]))) :
          LET r == LineNumberCanvas_update(text[current], view)
          IN  last' = [ op |-> "line_numbers_update", arg |-> view,
                        labels |-> r.labels, raised |-> r.raised ]
    /\ UNCHANGED << tabs, current, file_path, text, text_modified,
                    edit_modified, last_save, language, spans,
                    current_language, auto_save, theme, status_bar, events,
                    disk, now, hist >>

\* Documents, their content and their line numbers.
NextLines ==
    \/ NewDocument
    \/ SelectTab
    \/ SetContent(LineTexts)
    \/ UpdateLineNumbers
    \/ OnModify
    \/ OnTabChanged

SpecLines == Init /\ [][NextLines]_vars

\* _detect_language(path) called on the session as it stands, for a path
\* among DetectPaths.
DetectLanguage ==
    /\ Idle
    /\ \E path \in DetectPaths :
          Commit("detect_language", path, detect_language(Cur, path))
    /\ UNCHANGED << auto_save, theme, now >>

\* One document, its content and the detection of its language.
NextDetect ==
    \/ SetContent(Texts)
    \/ DetectLanguage
    \/ OnModify
    \/ OnTabChanged

SpecDetect == Init /\ [][NextDetect]_vars

\* Documents, their content and the language menu.
NextHighlight ==
    \/ NewDocument
    \/ SelectTab
    \/ SetContent(HighlightTexts)
    \/ SetLanguage
    \/ OnModify
    \/ OnTabChanged

SpecHighlight == Init /\ [][NextHighlight]_vars

\* A document is edited and saved, and its file opened again.
NextRoundTrip ==
    \/ SetContent(RoundTripTexts)
    \/ SaveFile(TextPaths)
    \/ OpenFile(TextPaths)
    \/ OnModify
    \/ OnTabChanged

SpecRoundTrip == Init /\ [][NextRoundTrip]_vars

\* ------------------------------------------------------------- properties
OpenTabs == 1 .. Len(tabs)

\* The characters a reader of the file at path p gets.
OnDisk(p) == ReadText(disk[p].data)

\* The content last persisted at path p: what a reader gets of the last
\* write to p that completed.
Persisted(p) == ReadText(disk[p].persisted)

\* C1 as stated: whenever the program waits for input, every open document
\* that is not modified and has a file path at which content was persisted
\* holds the content last persisted there.
C1_AsStated ==
    Idle => \A d \in OpenTabs :
               (file_path[d] # NoPath /\ ~text_modified[d]
                   /\ disk[file_path[d]].exists)
                  => text[d] = Persisted(file_path[d])

\* C1: whenever the program waits for input, every open document that is
\* not modified holds the content it was created with or that it last wrote
\* itself with a successful save.
C1_UnmodifiedHoldsOwnLastSave ==
    Idle => \A d \in OpenTabs : ~text_modified[d] => text[d] = hist[d].synced

\* Two documents share a path, one of them was saved and the other one is
\* not modified and does not hold what the file holds.
C1_Witness ==
    /\ Idle
    /\ Len(tabs) = 2
    /\ file_path[1] = file_path[2]
    /\ file_path[1] # NoPath
    /\ \E d \in OpenTabs :
          /\ ~text_modified[d]
          /\ text[d] = hist[d].synced
          /\ text[d] # Persisted(file_path[d])

\* C2: once the modification event of an edit has been handled the document
\* is modified, whether or not the edit changed the text, for as long as no
\* save succeeds; and a save that succeeds leaves the document unmodified.
C2_EditMarksModified ==
    /\ [](Idle => \A d \in OpenTabs : hist[d].edited => text_modified[d])
    /\ [][\A d \in last'.saved : ~text_modified'[d]]_vars

\* The document was saved with the text "x", then edited to the same text
\* "x", and is modified.
C2_Witness ==
    /\ Idle
    /\ file_path[1] # NoPath
    /\ hist[1].synced = <<"x">>
    /\ text[1] = <<"x">>
    /\ OnDisk(file_path[1]) = <<"x">>
    /\ hist[1].edited
    /\ text_modified[1]

\* C3: when the write of a save or of an autosave fails, an error is shown
\* and the content, the modified flag and the last-save time of every
\* document, the tab list and the current tab are as before.
C3_FailedSaveChangesNothing ==
    [][(last'.op \in { "save_file", "auto_save_check" }
           /\ last'.save_failed # {})
          => /\ last'.error = "save_error"
             /\ text' = text
             /\ text_modified' = text_modified
             /\ last_save' = last_save
             /\ tabs' = tabs
             /\ current' = current]_vars

\* The save of a modified document, last saved some time ago, has failed.
C3_Witness ==
    /\ last.op = "save_file"
    /\ last.save_failed = {1}
    /\ last.error = "save_error"
    /\ text_modified[1]
    /\ last_save[1] < now

\* C4: closing a modified document and answering Cancel leaves the tab
\* list, the current tab, every content, file path and modified flag, and
\* the files as they were.
C4_CancelledCloseChangesNothing ==
    [][(last'.op = "close_tab" /\ last'.arg = "cancel")
          => UNCHANGED << tabs, current, text, file_path, text_modified,
                          disk >>]_vars

\* The close of a modified document with a file, one of two tabs, was
\* cancelled.
C4_Witness ==
    /\ last.op = "close_tab"
    /\ last.arg = "cancel"
    /\ last.prompted = {current}
    /\ Len(tabs) = 2
    /\ text_modified[current]
    /\ file_path[current] # NoPath

\* C5 as stated: close-other-tabs with a current tab leaves exactly that tab
\* in the notebook, with its content, path, flag and language, and current.
C5_AsStated ==
    [][(last'.op = "close_other_tabs" /\ current # NoTab)
          => /\ tabs' = << 1 >>
             /\ current' = 1
             /\ text'[1] = text[current]
             /\ file_path'[1] = file_path[current]
             /\ text_modified'[1] = text_modified[current]
             /\ language'[1] = language[current]]_vars

\* C6 as stated: close-other-tabs removes no modified document that the
\* user was not asked about.
C6_AsStated ==
    [][last'.op = "close_other_tabs"
          => \A d \in last'.closed : text_modified[d] => d \in last'.prompted]_vars

\* The autosave check is due for document d: autosave is enabled, more than
\* 30 seconds have passed since its last save and it is modified.
AutoSaveDue(d) ==
    /\ auto_save
    /\ now - last_save[d] > AutoSaveInterval
    /\ text_modified[d]

\* C7 as stated: the autosave check calls save() on the document whenever
\* it is due, and writes the document only when it is due: never when the
\* document is not modified and never while autosave is disabled.
C7_AsStated ==
    [][last'.op = "auto_save_check"
          => /\ AutoSaveDue(current) => current \in last'.save_called
             /\ current \in last'.saved => AutoSaveDue(current)]_vars

\* C8 as stated: whenever the program waits for input, a document the user
\* has neither edited nor saved is not modified and holds the content it
\* was created with.
C8_AsStated ==
    Idle => \A d \in OpenTabs :
               hist[d].fresh => (~text_modified[d] /\ text[d] = hist[d].synced)

\* C9: choosing a language in the menu sets the language of the current
\* document to it and leaves alone the language and spans of every other
\* document and the content and modified flag of every document.
C9_SetLanguageTouchesActiveOnly ==
    [][last'.op = "set_language"
          => /\ current # NoTab => language'[current] = last'.arg
             /\ \A d \in TabIds \ {current} :
                   language'[d] = language[d] /\ spans'[d] = spans[d]
             /\ text' = text
             /\ text_modified' = text_modified
             /\ UNCHANGED << tabs, current >>]_vars

\* The language of the current one of two documents was set, the other
\* document has another language, and the current document is modified.
C9_Witness ==
    /\ last.op = "set_language"
    /\ Len(tabs) = 2
    /\ language[current] = last.arg
    /\ \E d \in OpenTabs : d # current /\ language[d] # last.arg
    /\ text_modified[current]
    /\ text[current] = <<"x">>

\* C10 as stated: when the status bar has just been refreshed for a change
\* of tab and the program waits for input, the fields it shows are the
\* path, encoding and modified flag of the current document and the
\* language of its highlighter.
C10_AsStated ==
    (Idle /\ current # NoTab /\ last.op = "tab_changed")
       => /\ status_bar.shown = "fields"
          /\ status_bar.file = file_path[current]
          /\ status_bar.encoding = Encoding
          /\ status_bar.modified = text_modified[current]
          /\ status_bar.language = language[current]

\* The language the table of the specification gives each sample path.
C11_Table(p) ==
    CASE p = PathPy -> "python"
      [] p = PathHtml -> "html"
      [] p = PathJs -> "javascript"
      [] p \in { PathTxt, PathBare, PathHidden, PathDir, PathBak } -> "text"

\* C11: detecting the language of a path sets the language its extension,
\* taken without regard to case, has in the table (.py python, .html html,
\* .js javascript, anything else or nothing: text); and a document whose
\* language has no rule set carries no span, whatever its content.
C11_DetectLanguage ==
    /\ [](\A d \in OpenTabs : language[d] \notin RuleLanguages
                                  => spans[d] = {})
    /\ [][last'.op = "detect_language"
            => /\ current_language' = C11_Table(last'.arg)
               /\ language'[current] = C11_Table(last'.arg)]_vars

\* m.js was detected as javascript, the content was then edited and the
\* edit handled: the document has content and no span.
C11_Witness ==
    /\ last.op = "on_modify"
    /\ language[current] = "javascript"
    /\ current_language = "javascript"
    /\ text[current] # <<>>
    /\ text_modified[current]
    /\ spans[current] = {}

\* The character at offset i of document d carries the tag.
Carries(d, i, tag) ==
    \E sp \in spans[d] : sp.tag = tag /\ sp.start <= i /\ i < sp.end

\* C12 as stated: once the edit of a python document to the text "if" (in
\* quotes) has been handled, each of its four characters carries the tag
\* string and none carries the tag keyword.
C12_AsStated ==
    \A d \in OpenTabs :
       (Idle /\ language[d] = "python" /\ text[d] = QuotedIf
             /\ ~edit_modified[d])
          => \A i \in 0 .. 3 : /\ Carries(d, i, "string")
                               /\ ~Carries(d, i, "keyword")

\* Document d holds what it last saved, and the file at its path holds what
\* that save wrote.
SavedAs(d) ==
    /\ file_path[d] # NoPath
    /\ ~hist[d].fresh
    /\ ~hist[d].edited
    /\ hist[d].synced = text[d]
    /\ disk[file_path[d]].exists
    /\ disk[file_path[d]].data = WriteText(text[d])

\* C13 as stated: a document was given the content X and saved; opening its
\* path then adds a document whose content is X.
C13_AsStated ==
    [][(last'.op = "open_file" /\ Len(tabs') = Len(tabs) + 1)
          => \A d \in OpenTabs :
                (SavedAs(d) /\ file_path'[Len(tabs')] = file_path[d])
                   => text'[Len(tabs')] = text[d]]_vars

\* A second call of highlight on document d, after a first call has
\* returned or has been abandoned by an exception.
HighlightAgain(s, d) == highlight([ s EXCEPT !.raised = FALSE ], d)

\* C14: on a document whose content and language stay the same, two calls
\* of highlight in a row leave the same set of spans as one call.
C14_HighlightIdempotent ==
    \A d \in OpenTabs :
       HighlightAgain(highlight(Cur, d), d).spans[d]
          = highlight(Cur, d).spans[d]

\* The language menu has just run highlight on a python document with the
\* content "if" in quotes that is one of two documents.
C14_Witness ==
    /\ last.op = "set_language"
    /\ last.arg = "python"
    /\ language[current] = "python"
    /\ text[current] = QuotedIf
    /\ Len(tabs) = 2
    /\ HighlightAgain(Cur, current).spans[current] = spans[current]

\* C15 as stated: after an update of the line numbers the gutter holds one
\* label per segment of the text between line feeds, numbered 1, 2, ...:
\* as many labels as the text has line feeds plus one.
C15_AsStated ==
    last.op = "line_numbers_update"
       => /\ Len(last.labels) = Newlines(text[current]) + 1
          /\ \A i \in 1 .. Len(last.labels) : last.labels[i].text = i

\* C16 as stated: the notebook always holds at least one document, and
\* one of its documents is the current one.
C16_AsStated ==
    /\ Len(tabs) >= 1
    /\ current \in OpenTabs

\* C17 as stated: when a modified document is closed with the answer Yes
\* (save, then close) and the tab goes, its content is in the file at its
\* path; when the save could not be done, the tab stays.
C17_AsStated ==
    [][(last'.op = "close_tab" /\ last'.arg = "yes" /\ last'.closed # {})
          => /\ file_path[current] # NoPath
             /\ disk'[file_path[current]].exists
             /\ disk'[file_path[current]].data = WriteText(text[current])]_vars

\* C18 as stated: opening a file or adding a document leaves the
\* language, the spans, the content, the file path and the modified flag
\* of every document that was open before as they were.
C18_AsStated ==
    [][last'.op \in { "open_file", "add_tab" }
          => \A d \in OpenTabs :
                /\ language'[d] = language[d]
                /\ spans'[d] = spans[d]
                /\ text'[d] = text[d]
                /\ file_path'[d] = file_path[d]
                /\ text_modified'[d] = text_modified[d]]_vars

\* What the rules of SYNTAX_RULES, read as regular expressions of the re
\* module, match in the texts of HighlightTexts: for
\* python the keyword pattern matches the if of "if" (in quotes) and the
\* fourth pattern, a string in double quotes, matches the whole of it; for
\* html the fourth pattern matches the whole of it; nothing matches in x or
\* in the empty text.
RuleMatches(lang, content) ==
    CASE lang = "python" /\ content = QuotedIf ->
            { [ start |-> 1, end |-> 3, tag |-> "keyword" ],
              [ start |-> 0, end |-> 4, tag |-> "string" ] }
      [] lang = "html" /\ content = QuotedIf ->
            { [ start |-> 0, end |-> 4, tag |-> "string" ] }
      [] OTHER -> {}

\* C19 as stated: once the events are handled, the spans of every open
\* document are those the rules of its language match in its content.
C19_AsStated ==
    Idle => \A d \in OpenTabs : spans[d] = RuleMatches(language[d], text[d])

\* The tags that one pattern only of a rule set produces.
OnePatternTags == { "keyword", "comment", "number", "constant", "entity" }

\* C20 as stated: every scan that a handler starts runs to its end and
\* returns; each span it has emitted covers at least one character (the
\* cursor moved on), and the spans of one pattern do not overlap.
C20_AsStated ==
    last.op \in { "on_modify", "set_language" }
       => /\ ~last.raised
          /\ \A d \in OpenTabs :
                /\ \A sp \in spans[d] : sp.start < sp.end
                /\ \A sp1, sp2 \in spans[d] :
                      (sp1 # sp2 /\ sp1.tag = sp2.tag
                                /\ sp1.tag \in OnePatternTags)
                         => (sp1.end <= sp2.start \/ sp2.end <= sp1.start)

====
